---- MODULE Spec2Model ----
(***************************************************************************)
(* TravelSorter.py: one run of the Streamlit script over an uploaded       *)
(* travel report and the edited events table.                              *)
(*                                                                         *)
(* Text that the script inspects piecewise (the first cell of a file row,  *)
(* the comma separated Cities field, a city name) is a sequence of tokens  *)
(* (words, " " and ","); its value is the concatenation of the tokens.     *)
(* Text that the script only builds or compares whole is a string.         *)
(***************************************************************************)
EXTENDS Integers, Sequences, FiniteSets, TLC

VARIABLES
    uploaded_file,      \* [name, rows]: the uploaded report, row by row
    events_df,          \* the edited events table, a sequence of events
    pc,                 \* position of the script
    header_row_index,   \* 0-based index of the row taken as the header
    df,                 \* the loaded table: [isnone, columns, typed, rows]
    index,              \* 1-based position in events_df of the next event
    arrivals,           \* arrivals filter of the last event evaluated
    departures,         \* departures filter of the last event evaluated
    report_data,        \* report rows of the last event that had arrivals
    out,                \* the sections rendered so far, in order
    err                 \* the st.error messages shown so far

vars == <<uploaded_file, events_df, pc, header_row_index, df, index,
          arrivals, departures, report_data, out, err>>

-----------------------------------------------------------------------------
(* Bounds of the model *)

MaxRows == 3        \* data rows of the uploaded report
MaxEvents == 2      \* rows of the events table
MaxBanner == 2      \* banner rows above the header

-----------------------------------------------------------------------------
(* Sequence helpers *)

SeqsUpTo(S, n) == UNION {[1..k -> S] : k \in 0..n}

StartsWith(s, p) == Len(s) >= Len(p) /\ SubSeq(s, 1, Len(p)) = p

-----------------------------------------------------------------------------
(* Text: str.split(','), str.strip(), membership in a list *)

RECURSIVE Split(_)
\* raw.split(','): the segments between the commas, empty segments kept
Split(raw) ==
    IF \A i \in 1..Len(raw) : raw[i] # ","
    THEN <<raw>>
    ELSE LET i == CHOOSE i \in 1..Len(raw) :
                      raw[i] = "," /\ \A j \in 1..(i - 1) : raw[j] # ","
         IN  <<SubSeq(raw, 1, i - 1)>> \o Split(SubSeq(raw, i + 1, Len(raw)))

RECURSIVE LStrip(_)
LStrip(s) == IF s # <<>> /\ Head(s) = " " THEN LStrip(Tail(s)) ELSE s

RECURSIVE RStrip(_)
RStrip(s) == IF s # <<>> /\ s[Len(s)] = " "
             THEN RStrip(SubSeq(s, 1, Len(s) - 1)) ELSE s

Strip(s) == RStrip(LStrip(s))

RECURSIVE StripAll(_)
StripAll(segs) == IF segs = <<>> THEN <<>>
                  ELSE <<Strip(Head(segs))>> \o StripAll(Tail(segs))

\* target_cities = [c.strip() for c in raw_cities.split(',')]
TargetCities(raw_cities) == StripAll(Split(raw_cities))

\* Series.isin(list): exact equality with some element of the list
IsIn(v, list) == \E i \in 1..Len(list) : list[i] = v

-----------------------------------------------------------------------------
(* Dates and times.  A date is a day of March 2026. *)

\* a date cell of the file: a date (with or without a time of day), an empty
\* cell, or text that is no date
DateCell(d, t) == [kind |-> "date", day |-> d, tod |-> t]
EmptyCell == [kind |-> "empty", day |-> 0, tod |-> FALSE]
JunkCell == [kind |-> "junk", day |-> 0, tod |-> FALSE]

\* a time cell: its text, and the hour and minute when the text is a time
TimeCell(h, m, text) == [ok |-> TRUE, h |-> h, m |-> m, text |-> text]
JunkTime == [ok |-> FALSE, h |-> 0, m |-> 0, text |-> "junk"]

NaT == [nat |-> TRUE, day |-> 0, tod |-> FALSE]

\* pd.to_datetime of one parseable cell: a Timestamp, NaT for an empty cell
ToDatetimeCell(cell) ==
    IF cell.kind = "date"
    THEN [nat |-> FALSE, day |-> cell.day, tod |-> cell.tod]
    ELSE NaT

\* pd.to_datetime of a column raises when some cell is no date
ToDatetimeRaises(cells) == \E i \in 1..Len(cells) : cells[i].kind = "junk"

Pad2(n) == IF n < 10 THEN "0" \o ToString(n) ELSE ToString(n)

\* str(Timestamp)
TimestampStr(ts) ==
    IF ts.nat THEN "NaT"
    ELSE "2026-03-" \o Pad2(ts.day) \o
         (IF ts.tod THEN " 06:30:00" ELSE " 00:00:00")

\* strftime("%A") in March 2026: the 19th is a Thursday
WeekdayNames == <<"Thursday", "Friday", "Saturday", "Sunday", "Monday",
                  "Tuesday", "Wednesday">>
Weekday(day) == WeekdayNames[((day + 2) % 7) + 1]

Hour12(h) == ((h + 11) % 12) + 1
Meridiem(h) == IF h < 12 THEN "am" ELSE "pm"

\* format_travel_time(date_val, time_val): date_val is a Timestamp of the
\* table, time_val a time cell
format_travel_time(date_val, time_val) ==
    IF ~date_val.nat /\ time_val.ok
    THEN Weekday(date_val.day) \o " March " \o Pad2(date_val.day) \o " " \o
         Pad2(Hour12(time_val.h)) \o ":" \o Pad2(time_val.m) \o " " \o
         Meridiem(time_val.h)
    ELSE TimestampStr(date_val) \o " " \o time_val.text

-----------------------------------------------------------------------------
(* The uploaded file *)

Marker == <<"Traveler", " ", "Name">>

\* a row of the file that is no data row: its first cell, and whether its
\* other cells are the remaining required column names
TextRow(first, cols) == [first |-> first, cols |-> cols, rec |-> <<>>]
\* a data row: its first cell is the traveler's name, one token
DataRow(r) == [first |-> <<r.TravelerName>>, cols |-> FALSE, rec |-> <<r>>]

HeaderRow == TextRow(Marker, TRUE)

\* a line of the CSV text: the cells joined by commas (the cells after the
\* first are not looked at by the scan and are left out)
CsvLine(row) == row.first \o <<",">>

\* line.startswith("Traveler Name")
CsvMatch(row) == StartsWith(CsvLine(row), Marker)

\* a prefix test in place of the equality
ExcelMatchPrefix(row) == StartsWith(row.first, Marker)

\* temp_df.iloc[:, 0].astype(str) == "Traveler Name"
ExcelMatch(row) == row.first = Marker

\* the 1-based position of the first row, top to bottom, that satisfies Match
\* among the 1-based positions of the rows that match
FirstMatch(matches) == CHOOSE i \in matches : \A j \in matches : i <= j

\* the rows the CSV scan / the Excel comparison matches
CsvMatches(rows) == {i \in 1..Len(rows) : CsvMatch(rows[i])}
ExcelMatches(rows) == {i \in 1..Len(rows) : ExcelMatch(rows[i])}

RECURSIVE Records(_)
\* the data records of a sequence of rows
Records(rows) ==
    IF rows = <<>> THEN <<>>
    ELSE Head(rows).rec \o Records(Tail(rows))

\* pd.read_csv / pd.read_excel with skiprows = h: the first row not skipped
\* gives the column names, the rows below it are the table (rows below it
\* that are no data rows occur only under a header without the required
\* columns, where the table is never read; they are left out)
ReadTable(rows, h) ==
    [isnone |-> FALSE,
     columns |-> [first |-> rows[h + 1].first, cols |-> rows[h + 1].cols],
     typed |-> FALSE,
     rows |-> Records(SubSeq(rows, h + 2, Len(rows)))]

NoDf == [isnone |-> TRUE, columns |-> [first |-> <<>>, cols |-> FALSE],
         typed |-> FALSE, rows |-> <<>>]

\* df.columns.str.strip() leaves the required column names
HasRequiredColumns(d) == Strip(d.columns.first) = Marker /\ d.columns.cols

RECURSIVE Column(_, _)
\* the Arrival Date (which = "a") or Departure Date column of the raw rows
Column(rows, which) ==
    IF rows = <<>> THEN <<>>
    ELSE <<IF which = "a" THEN Head(rows).ArrivalDate
           ELSE Head(rows).DepartureDate>> \o Column(Tail(rows), which)

RECURSIVE TypedRows(_)
TypedRows(rows) ==
    IF rows = <<>> THEN <<>>
    ELSE <<[Head(rows) EXCEPT
              !.ArrivalDate = ToDatetimeCell(@),
              !.DepartureDate = ToDatetimeCell(@)]>> \o TypedRows(Tail(rows))

\* lines 129-133 raise: df is None, a column is missing, or a date cell
\* does not parse
NormalizeRaises(d) ==
    \/ d.isnone
    \/ ~HasRequiredColumns(d)
    \/ ToDatetimeRaises(Column(d.rows, "a"))
    \/ ToDatetimeRaises(Column(d.rows, "d"))

-----------------------------------------------------------------------------
(* The event matcher *)

\* .dt.date >= start_date and .dt.date <= end_date: False on NaT
DateInWindow(ts, start_date, end_date) ==
    ~ts.nat /\ ts.day >= start_date /\ ts.day <= end_date

\* the arrivals filter without its lower bound on the date
ArrivalsFilterNoStart(rows, target_cities, start_date, end_date) ==
    SelectSeq(rows, LAMBDA r :
        /\ IsIn(r.ArrivalCity, target_cities)
        /\ ~r.ArrivalDate.nat /\ r.ArrivalDate.day <= end_date)

ArrivalsFilter(rows, target_cities, start_date, end_date) ==
    SelectSeq(rows, LAMBDA r :
        /\ IsIn(r.ArrivalCity, target_cities)
        /\ DateInWindow(r.ArrivalDate, start_date, end_date))

DeparturesFilter(rows, target_cities, start_date, end_date) ==
    SelectSeq(rows, LAMBDA r :
        /\ IsIn(r.DepartureCityName, target_cities)
        /\ DateInWindow(r.DepartureDate, start_date, end_date))

\* the early exit left out
ArrivalsNeverEmpty(arrs) == FALSE

\* arrivals.empty
ArrivalsEmpty(arrs) == arrs = <<>>

\* departures[departures['Traveler Name'] == name]
PersonDep(deps, name) == SelectSeq(deps, LAMBDA r : r.TravelerName = name)

\* the last match instead of the first
DepRowLast(person_dep) == person_dep[Len(person_dep)]

\* person_dep.iloc[0]
DepRow(person_dep) == person_dep[1]

Flight(r) == r.AirlineCode \o " " \o r.FlightNumber

\* the body of the loop over arrivals: the report row of one arrival
ReportRow(row, deps) ==
    LET person_dep == PersonDep(deps, row.TravelerName)
        found == person_dep # <<>>
        dep_row == DepRow(person_dep)
    IN  [Name |-> row.TravelerName,
         HomeCity |-> row.DepartureCityName,
         ArrivalTime |-> format_travel_time(row.ArrivalDate, row.ArrivalTime),
         ArrivalFlight |-> Flight(row),
         DepartureTime |->
             IF found
             THEN format_travel_time(dep_row.DepartureDate,
                                     dep_row.DepartureTime)
             ELSE "No Return Flight",
         DepartureFlight |-> IF found THEN Flight(dep_row) ELSE "-"]

\* a row is added only for a traveler the report does not have yet
AppendRowOncePerName(data, r) ==
    IF \E k \in 1..Len(data) : data[k].Name = r.Name THEN data
    ELSE Append(data, r)

\* the row is put in front of the report
PrependRow(data, r) == <<r>> \o data

\* report_data.append(...)
AppendRow(data, r) == Append(data, r)

\* the report of the previous event is kept
KeepReport(previous) == previous

\* report_data = []
NewReport(previous) == <<>>

RECURSIVE FillReport(_, _, _)
\* for _, row in arrivals.iterrows(): ... report_data.append(...)
FillReport(data, arrs, deps) ==
    IF arrs = <<>> THEN data
    ELSE FillReport(AppendRow(data, ReportRow(Head(arrs), deps)),
                    Tail(arrs), deps)

\* st.subheader, st.caption and st.dataframe of one event
Section(i, event, target_cities, data) ==
    [index |-> i,
     title |-> event.EventName,
     caption |-> [cities |-> target_cities,
                  start |-> event.StartDate, end |-> event.EndDate],
     table |-> data]

-----------------------------------------------------------------------------
(* Inputs *)

Dallas == <<"Dallas">>
FtWorth == <<"Ft.", " ", "Worth">>
Denver == <<"Denver">>

Rec(name, from, depDate, depTime, to, arrDate, arrTime, airline, flight) ==
    [TravelerName |-> name,
     ArrivalCity |-> to, ArrivalDate |-> arrDate, ArrivalTime |-> arrTime,
     DepartureCityName |-> from, DepartureDate |-> depDate,
     DepartureTime |-> depTime,
     AirlineCode |-> airline, FlightNumber |-> flight]

\* the flights the data rows are drawn from: two travelers, flights into and
\* out of the event cities on different days, a flight between two event
\* cities, an arrival date with a time of day, a time cell that is no time,
\* an empty date cell and a date cell that is no date
JaneIn == Rec("Jane Doe", Denver, DateCell(19, FALSE), TimeCell(11, 30, "11:30"),
              Dallas, DateCell(19, TRUE), TimeCell(14, 5, "14:05"), "UA", "100")
JaneOutFtWorth == Rec("Jane Doe", FtWorth, DateCell(20, FALSE), TimeCell(9, 15, "09:15"),
              Denver, DateCell(20, FALSE), TimeCell(10, 40, "10:40"), "UA", "200")
JaneOutDallas == Rec("Jane Doe", Dallas, DateCell(19, FALSE), TimeCell(18, 0, "18:00"),
              Denver, DateCell(19, FALSE), TimeCell(19, 45, "19:45"), "AA", "300")
JohnIn == Rec("John Smith", Denver, DateCell(18, FALSE), TimeCell(0, 10, "00:10"),
              Dallas, DateCell(18, FALSE), JunkTime, "WN", "400")
JohnHop == Rec("John Smith", Dallas, DateCell(19, FALSE), TimeCell(12, 0, "12:00"),
              FtWorth, DateCell(20, TRUE), TimeCell(13, 0, "13:00"), "AA", "500")
JohnOutNoDate == Rec("John Smith", Dallas, DateCell(20, TRUE), TimeCell(7, 5, "07:05"),
              Denver, EmptyCell, TimeCell(8, 20, "08:20"), "DL", "600")
JaneBadArrival == Rec("Jane Doe", Denver, DateCell(19, FALSE), TimeCell(11, 30, "11:30"),
              Dallas, JunkCell, TimeCell(14, 5, "14:05"), "UA", "700")
JohnBadDeparture == Rec("John Smith", Dallas, JunkCell, TimeCell(12, 0, "12:00"),
              Denver, DateCell(20, FALSE), TimeCell(13, 0, "13:00"), "AA", "800")

Flights == {JaneIn, JaneOutFtWorth, JaneOutDallas, JohnIn, JohnHop,
            JohnOutNoDate, JaneBadArrival}

Event(name, cities, start, end) ==
    [EventName |-> name, Cities |-> cities, StartDate |-> start, EndDate |-> end]

\* the events the events table is drawn from: two cities separated by a
\* comma and a space, a trailing comma, surrounding spaces
Events ==
    {Event("Texas", <<"Dallas", ",", " ", "Ft.", " ", "Worth">>, 19, 20),
     Event("Dallas", <<"Dallas", ",">>, 18, 19),
     Event("Denver", <<" ", "Denver", " ">>, 18, 20)}

\* first cells of the banner rows: other text, text that begins with the
\* marker, the marker in lower case
BannerCells == {<<"Group", " ", "Travel">>,
                <<"Traveler", " ", "Name", " ", "List">>,
                <<"traveler", " ", "name">>}

RECURSIVE DataRows(_)
DataRows(recs) ==
    IF recs = <<>> THEN <<>> ELSE <<DataRow(Head(recs))>> \o DataRows(Tail(recs))

RECURSIVE BannerRows(_)
BannerRows(cells) ==
    IF cells = <<>> THEN <<>>
    ELSE <<TextRow(Head(cells), FALSE)>> \o BannerRows(Tail(cells))

\* a report: banner rows, the header row unless it is missing, data rows
File(ext, banner, hasHeader, recs) ==
    [ext |-> ext,
     rows |-> BannerRows(banner) \o (IF hasHeader THEN <<HeaderRow>> ELSE <<>>)
              \o DataRows(recs)]

Untouched ==
    /\ pc = "start"
    /\ header_row_index = 0
    /\ df = NoDf
    /\ index = 1
    /\ arrivals = <<>>
    /\ departures = <<>>
    /\ report_data = <<>>
    /\ out = <<>>
    /\ err = <<>>

\* a well-formed CSV report with any table, and any non-empty events table
InitMatcher ==
    /\ \E recs \in SeqsUpTo(Flights, MaxRows) :
          uploaded_file = File(".csv", <<>>, TRUE, recs)
    /\ events_df \in SeqsUpTo(Events, MaxEvents) \ {<<>>}
    /\ Untouched

\* any layout of the report above a table of at most one row, and an events
\* table of at most one row
InitLoader ==
    /\ \E ext \in {".csv", ".xlsx", ".CSV"},
          banner \in SeqsUpTo(BannerCells, MaxBanner),
          hasHeader \in BOOLEAN,
          recs \in SeqsUpTo(Flights \cup {JohnBadDeparture}, 1) :
          uploaded_file = File(ext, banner, hasHeader, recs)
    /\ events_df \in SeqsUpTo(Events, 1)
    /\ Untouched

Init == InitMatcher \/ InitLoader

-----------------------------------------------------------------------------
(* The script, step by step *)

StopMessage(kind) == "Could not find 'Traveler Name' in " \o kind
ErrorMessage == "An error occurred"

\* line 96: nothing is processed when the events table is empty
SkipRun ==
    /\ pc = "start"
    /\ events_df = <<>>
    /\ pc' = "skipped"
    /\ UNCHANGED <<uploaded_file, events_df, header_row_index, df, index,
                   arrivals, departures, report_data, out, err>>

\* lines 102-115, a line starts with the marker
LoadCsvFound ==
    /\ pc = "start"
    /\ events_df # <<>>
    /\ uploaded_file.ext = ".csv"
    /\ CsvMatches(uploaded_file.rows) # {}
    /\ header_row_index' = FirstMatch(CsvMatches(uploaded_file.rows)) - 1
    /\ df' = ReadTable(uploaded_file.rows, header_row_index')
    /\ pc' = "loaded"
    /\ UNCHANGED <<uploaded_file, events_df, index, arrivals, departures,
                   report_data, out, err>>

\* lines 111-113: st.error and st.stop
LoadCsvNotFound ==
    /\ pc = "start"
    /\ events_df # <<>>
    /\ uploaded_file.ext = ".csv"
    /\ CsvMatches(uploaded_file.rows) = {}
    /\ err' = Append(err, StopMessage("the CSV."))
    /\ pc' = "stopped"
    /\ UNCHANGED <<uploaded_file, events_df, header_row_index, df, index,
                   arrivals, departures, report_data, out>>

\* lines 117-123
LoadExcelFound ==
    /\ pc = "start"
    /\ events_df # <<>>
    /\ uploaded_file.ext = ".xlsx"
    /\ ExcelMatches(uploaded_file.rows) # {}
    /\ header_row_index' = FirstMatch(ExcelMatches(uploaded_file.rows)) - 1
    /\ df' = ReadTable(uploaded_file.rows, header_row_index')
    /\ pc' = "loaded"
    /\ UNCHANGED <<uploaded_file, events_df, index, arrivals, departures,
                   report_data, out, err>>

\* lines 124-126: st.error and st.stop
LoadExcelNotFound ==
    /\ pc = "start"
    /\ events_df # <<>>
    /\ uploaded_file.ext = ".xlsx"
    /\ ExcelMatches(uploaded_file.rows) = {}
    /\ err' = Append(err, StopMessage("Excel."))
    /\ pc' = "stopped"
    /\ UNCHANGED <<uploaded_file, events_df, header_row_index, df, index,
                   arrivals, departures, report_data, out>>

\* neither endswith holds: df stays None
LoadNeither ==
    /\ pc = "start"
    /\ events_df # <<>>
    /\ uploaded_file.ext \notin {".csv", ".xlsx"}
    /\ pc' = "loaded"
    /\ UNCHANGED <<uploaded_file, events_df, header_row_index, df, index,
                   arrivals, departures, report_data, out, err>>

\* lines 129-133 when nothing raises
NormalizeOk ==
    /\ pc = "loaded"
    /\ ~NormalizeRaises(df)
    /\ df' = [df EXCEPT !.typed = TRUE, !.rows = TypedRows(@)]
    /\ pc' = "events"
    /\ UNCHANGED <<uploaded_file, events_df, header_row_index, index,
                   arrivals, departures, report_data, out, err>>

\* lines 129-133 raise, lines 206-207 show the error
NormalizeError ==
    /\ pc = "loaded"
    /\ NormalizeRaises(df)
    /\ err' = Append(err, ErrorMessage)
    /\ pc' = "error"
    /\ UNCHANGED <<uploaded_file, events_df, header_row_index, df, index,
                   arrivals, departures, report_data, out>>

\* lines 140-167: the filters of the next event, and continue when no row
\* arrives
SkipEvent ==
    /\ pc = "events"
    /\ index <= Len(events_df)
    /\ LET event == events_df[index]
           target_cities == TargetCities(event.Cities)
       IN  /\ arrivals' = ArrivalsFilter(df.rows, target_cities,
                                         event.StartDate, event.EndDate)
           /\ departures' = DeparturesFilter(df.rows, target_cities,
                                             event.StartDate, event.EndDate)
    /\ ArrivalsEmpty(arrivals')
    /\ index' = index + 1
    /\ UNCHANGED <<uploaded_file, events_df, pc, header_row_index, df,
                   report_data, out, err>>

\* lines 140-204: the filters of the next event, its report rows and its
\* section
ReportEvent ==
    /\ pc = "events"
    /\ index <= Len(events_df)
    /\ LET event == events_df[index]
           target_cities == TargetCities(event.Cities)
       IN  /\ arrivals' = ArrivalsFilter(df.rows, target_cities,
                                         event.StartDate, event.EndDate)
           /\ departures' = DeparturesFilter(df.rows, target_cities,
                                             event.StartDate, event.EndDate)
           /\ ~ArrivalsEmpty(arrivals')
           /\ report_data' = FillReport(NewReport(report_data), arrivals',
                                        departures')
           /\ out' = Append(out, Section(index, event, target_cities,
                                         report_data'))
    /\ index' = index + 1
    /\ UNCHANGED <<uploaded_file, events_df, pc, header_row_index, df, err>>

\* the loop over events_df ends
Finish ==
    /\ pc = "events"
    /\ index > Len(events_df)
    /\ pc' = "done"
    /\ UNCHANGED <<uploaded_file, events_df, header_row_index, df, index,
                   arrivals, departures, report_data, out, err>>

Next ==
    \/ SkipRun
    \/ LoadCsvFound
    \/ LoadCsvNotFound
    \/ LoadExcelFound
    \/ LoadExcelNotFound
    \/ LoadNeither
    \/ NormalizeOk
    \/ NormalizeError
    \/ SkipEvent
    \/ ReportEvent
    \/ Finish

Spec == Init /\ [][Next]_vars

-----------------------------------------------------------------------------
(* What the claims speak of, stated on the table and the event alone *)

\* the table the matcher runs on, once the dates are normalized
T == df.rows
Loaded == df.typed

\* the comma-split, trimmed city set of a Cities field: the trimmed maximal
\* comma-free stretches of the field
CitySet(raw) ==
    LET w == <<",">> \o raw \o <<",">>
        Trim(seg) ==
            IF \A i \in 1..Len(seg) : seg[i] = " " THEN <<>>
            ELSE LET a == CHOOSE a \in 1..Len(seg) :
                              seg[a] # " " /\ \A i \in 1..(a - 1) : seg[i] = " "
                     b == CHOOSE b \in 1..Len(seg) :
                              seg[b] # " " /\ \A i \in (b + 1)..Len(seg) : seg[i] = " "
                 IN  SubSeq(seg, a, b)
        commas == {i \in 1..Len(w) : w[i] = ","}
    IN  {Trim(SubSeq(w, p[1] + 1, p[2] - 1)) :
            p \in {p \in commas \X commas :
                     /\ p[1] < p[2]
                     /\ \A k \in commas : ~(p[1] < k /\ k < p[2])}}

InWindow(ts, E) == ~ts.nat /\ E.StartDate <= ts.day /\ ts.day <= E.EndDate

\* positions in T of the records that qualify as arrivals / departures of E
QualArr(E) ==
    LET cities == CitySet(E.Cities)
    IN  {i \in 1..Len(T) : /\ T[i].ArrivalCity \in cities
                           /\ InWindow(T[i].ArrivalDate, E)}
QualDep(E) ==
    LET cities == CitySet(E.Cities)
    IN  {i \in 1..Len(T) : /\ T[i].DepartureCityName \in cities
                           /\ InWindow(T[i].DepartureDate, E)}

\* among the qualifying departures deps, those of the traveler of record i
Returns(deps, i) == {j \in deps : T[j].TravelerName = T[i].TravelerName}

Min(S) == CHOOSE i \in S : \A j \in S : i <= j
\* the k-th smallest element of S
Nth(S, k) == CHOOSE i \in S : Cardinality({j \in S : j < i}) = k - 1

\* the report row is built from the arrival side of record r
BuiltFrom(row, r) ==
    /\ row.Name = r.TravelerName
    /\ row.HomeCity = r.DepartureCityName
    /\ row.ArrivalFlight = r.AirlineCode \o " " \o r.FlightNumber
    /\ row.ArrivalTime = format_travel_time(r.ArrivalDate, r.ArrivalTime)

\* the departure side of the report row is taken from record r
ReturnsWith(row, r) ==
    /\ row.DepartureFlight = r.AirlineCode \o " " \o r.FlightNumber
    /\ row.DepartureTime = format_travel_time(r.DepartureDate, r.DepartureTime)

Sections == {out[k] : k \in 1..Len(out)}
EventOf(s) == events_df[s.index]
HasSection(i) == \E s \in Sections : s.index = i
Rows(s) == {s.table[k] : k \in 1..Len(s.table)}

-----------------------------------------------------------------------------
(* Claims *)

\* C1: every report row of an event is built from a record of the table
\* whose Arrival City is in the event's trimmed comma-split city set and
\* whose Arrival Date, as a date, lies between Start Date and End Date.
C1_RowsFromQualifyingArrivals ==
    \A s \in Sections :
        LET arrs == QualArr(EventOf(s)) IN
        \A row \in Rows(s) : \E i \in arrs : BuiltFrom(row, T[i])

\* a section was rendered for an event that leaves out a record of its city
\* (wrong date) and a record of its window (wrong city), and keeps a record
\* whose arrival date carries a time of day on the last day of the window
C1_Witness ==
    \E s \in Sections :
        LET E == EventOf(s)
            arrs == QualArr(E)
        IN  /\ \E i \in 1..Len(T) : /\ i \notin arrs
                                    /\ T[i].ArrivalCity \in CitySet(E.Cities)
            /\ \E i \in 1..Len(T) : /\ i \notin arrs
                                    /\ InWindow(T[i].ArrivalDate, E)
            /\ \E i \in arrs : /\ T[i].ArrivalDate.tod
                                /\ T[i].ArrivalDate.day = E.EndDate

\* C2: a date cell that is no date does not halt the run: an error outcome
\* is never due to the date cells of a report whose header and columns are
\* in order.
C2_MalformedDateDoesNotHalt ==
    pc = "error" => (df.isnone \/ ~HasRequiredColumns(df))

\* C3: the departure of a report row is the first record, in table order,
\* that passes the event's departures filter and has the arrival's Traveler
\* Name; later qualifying departures of the traveler are ignored.
C3_FirstDepartureWins ==
    \A s \in Sections :
        LET arrs == QualArr(EventOf(s))
            deps == QualDep(EventOf(s))
        IN  \A row \in Rows(s) : \E i \in arrs :
                /\ BuiltFrom(row, T[i])
                /\ Returns(deps, i) # {} =>
                       ReturnsWith(row, T[Min(Returns(deps, i))])

\* a row was rendered for an arrival whose traveler has two qualifying
\* departures that differ in flight and date, the later date first
C3_Witness ==
    \E s \in Sections : \E i \in QualArr(EventOf(s)) :
        /\ \E row \in Rows(s) : BuiltFrom(row, T[i])
        /\ \E j, k \in Returns(QualDep(EventOf(s)), i) :
              /\ j < k
              /\ T[j].FlightNumber # T[k].FlightNumber
              /\ T[j].DepartureDate.day > T[k].DepartureDate.day

\* C4: a qualifying arrival without a qualifying departure of the same
\* traveler gets Departure Time "No Return Flight", Departure Flight "-" and
\* Departure Airport "-", and only such an arrival does.
C4_SentinelsWithAirport ==
    \A s \in Sections :
        LET arrs == QualArr(EventOf(s))
            deps == QualDep(EventOf(s))
        IN  \A row \in Rows(s) : \E i \in arrs :
                /\ BuiltFrom(row, T[i])
                /\ Returns(deps, i) = {} <=>
                       /\ row.DepartureTime = "No Return Flight"
                       /\ row.DepartureFlight = "-"
                       /\ "DepartureAirport" \in DOMAIN row
                       /\ row["DepartureAirport"] = "-"

\* what holds of C4: the two sentinels the report row has
SentinelsWithoutAirport ==
    \A s \in Sections :
        LET arrs == QualArr(EventOf(s))
            deps == QualDep(EventOf(s))
        IN  \A row \in Rows(s) : \E i \in arrs :
                /\ BuiltFrom(row, T[i])
                /\ Returns(deps, i) = {} <=> row.DepartureTime = "No Return Flight"
                /\ Returns(deps, i) = {} <=> row.DepartureFlight = "-"
                /\ DOMAIN row = {"Name", "HomeCity", "ArrivalTime",
                                 "ArrivalFlight", "DepartureTime",
                                 "DepartureFlight"}

\* C5: an event whose arrivals filter is empty gets no section, whatever
\* its departures filter holds, and every event with a qualifying arrival
\* gets one.
C5_SectionIffArrival ==
    Loaded =>
        \A i \in 1..Len(events_df) :
            /\ HasSection(i) => i < index
            /\ i < index => (HasSection(i) <=> QualArr(events_df[i]) # {})

\* an event without arrivals and with departures was passed over, and
\* another event of the run got its section
C5_Witness ==
    /\ pc = "done"
    /\ \E i \in 1..Len(events_df) :
          ~HasSection(i) /\ QualDep(events_df[i]) # {}
    /\ \E i \in 1..Len(events_df) : HasSection(i)

\* the rows of the file whose first cell is exactly the marker
ExactRows == {i \in 1..Len(uploaded_file.rows) :
                 uploaded_file.rows[i].first = Marker}
\* the data rows of the file below row i
DataBelow(i) == {j \in (i + 1)..Len(uploaded_file.rows) :
                    uploaded_file.rows[j].rec # <<>>}
AfterLoad == pc \in {"loaded", "events", "done", "error"}

\* C6: the header is the first row, top to bottom, whose first cell is
\* exactly "Traveler Name" (the whole cell, not a prefix), above any number
\* of banner rows; the rows below it are the table.
C6_HeaderIsFirstExactRow ==
    (AfterLoad /\ uploaded_file.ext \in {".csv", ".xlsx"} /\ ExactRows # {}) =>
        /\ header_row_index = Min(ExactRows) - 1
        /\ Len(df.rows) = Cardinality(DataBelow(Min(ExactRows)))

\* the rows the header scan of the file's kind takes for the header
MarkerRows ==
    {i \in 1..Len(uploaded_file.rows) :
        IF uploaded_file.ext = ".csv"
        THEN StartsWith(uploaded_file.rows[i].first, Marker)
        ELSE uploaded_file.rows[i].first = Marker}

C8_OneRowPerTraveler ==
    \A s \in Sections : \A k1, k2 \in 1..Len(s.table) :
        s.table[k1].Name = s.table[k2].Name => k1 = k2

\* C8 as amended: an event's report has one row per record that passes its
\* arrivals filter; a traveler has as many rows as qualifying records.
C8_OneRowPerArrivalRecord ==
    \A s \in Sections :
        LET arrs == QualArr(EventOf(s)) IN
        /\ Len(s.table) = Cardinality(arrs)
        /\ \A i \in arrs :
              Cardinality({k \in 1..Len(s.table) :
                              s.table[k].Name = T[i].TravelerName})
              = Cardinality({j \in arrs :
                                T[j].TravelerName = T[i].TravelerName})

\* a report holds two rows of one traveler, built from different records
C8_Witness ==
    \E s \in Sections : \E k1, k2 \in 1..Len(s.table) :
        /\ k1 # k2
        /\ s.table[k1].Name = s.table[k2].Name
        /\ s.table[k1].ArrivalFlight # s.table[k2].ArrivalFlight

\* C9: the report rows are in table order of the qualifying arrival
\* records, without any other sort.
C9_RowsInTableOrder ==
    \A s \in Sections :
        LET arrs == QualArr(EventOf(s)) IN
        /\ Len(s.table) = Cardinality(arrs)
        /\ \A k \in 1..Len(s.table) : BuiltFrom(s.table[k], T[Nth(arrs, k)])

\* a report of three rows whose table order is neither the order of the
\* names nor the order of the arrival dates
C9_Witness ==
    \E s \in Sections :
        /\ Len(s.table) = 3
        /\ s.table[1].Name = "John Smith" /\ s.table[2].Name = "Jane Doe"
        /\ LET q == QualArr(EventOf(s)) IN
           T[Nth(q, 2)].ArrivalDate.day > T[Nth(q, 3)].ArrivalDate.day

\* the report row of the arrival record i, deps the qualifying departures
ExpectedRow(deps, i) ==
    LET rets == Returns(deps, i)
        first == T[Min(rets)]
    IN  [Name |-> T[i].TravelerName,
         HomeCity |-> T[i].DepartureCityName,
         ArrivalTime |-> format_travel_time(T[i].ArrivalDate, T[i].ArrivalTime),
         ArrivalFlight |-> T[i].AirlineCode \o " " \o T[i].FlightNumber,
         DepartureTime |->
             IF rets = {} THEN "No Return Flight"
             ELSE format_travel_time(first.DepartureDate, first.DepartureTime),
         DepartureFlight |->
             IF rets = {} THEN "-"
             ELSE first.AirlineCode \o " " \o first.FlightNumber]

\* the report of event E over the table
ExpectedTable(E) ==
    LET arrs == QualArr(E)
        deps == QualDep(E)
    IN  [k \in 1..Cardinality(arrs) |-> ExpectedRow(deps, Nth(arrs, k))]

====
